---- MODULE Spec2Model ----
(***************************************************************************)
(* Model of the token table of hyperliquid-spot-dashboard:                 *)
(*   src/unnamed/part_000              App (fetch / poll / loading / error)*)
(*   src/src/components/TokenTable.tsx TokenTable (the later revision of   *)
(*                                     the component, lines 349-792)       *)
(*                                                                         *)
(* Representation.                                                         *)
(*  - A JavaScript value is a tagged tuple whose first element is its      *)
(*    typeof: Undefined, Num(n), NaN, Infinity, Str(s), Obj(r).            *)
(*  - A number a record holds is an integer, Num(n).  Percent-like fields  *)
(*    (slippage, the holder shares, price_change_24h) are counted in       *)
(*    thousandths, so the literal 0.31 of isHyperliquid is 310 and 0.311   *)
(*    is 311.  A number read from a text of a bound box is the double      *)
(*    nearest the decimal the text holds: Num(n) when it is an integer     *)
(*    below 2^31, Double(sign, k, e), the number sign * k * 2^e, otherwise.*)
(*  - A text (symbol, search box, bound box) is a tuple of one-character   *)
(*    strings.  A date string is <<"iso", h>>: the instant h hours after   *)
(*    2024-04-16T00:00Z; any other tuple is not a date.  A duration of one *)
(*    day, 1000*60*60*24 ms in the source, is 24 of these hours.           *)
(*  - A token is a record with every field of TokenData (and the four      *)
(*    size fields the column registry names); a field the JSON does not    *)
(*    carry holds Undefined, which is what reading it yields.              *)
(***************************************************************************)
EXTENDS Integers, Sequences, FiniteSets, TLC

VARIABLES
    tokens,       \* App: useState<TokenData[]>([])
    loading,      \* App: useState(true)
    error,        \* App: useState<string | null>(null); "null" when unset
    inflight,     \* fetchTokens calls awaiting their response (by start number)
    nfetch,       \* number of fetchTokens calls started so far
    tokensFrom,   \* start number of the fetch whose data `tokens` holds (0: none)
    lastDone,     \* outcome of the most recently completed fetch: "none", "ok", "fail"
    columns,      \* TokenTable: useState<Column[]>
    sortConfig,   \* TokenTable: useState<SortConfig>
    filters,      \* TokenTable: useState<Filters>
    page,         \* what the last render put on the page: "spinner", "error",
                  \* "table", or "blank" once a render has thrown
    view,         \* the table body the last render produced: rows, or a thrown error
    viewOf,       \* the inputs the last render read: data, filters, sortConfig, clock
    now,          \* the clock new Date() reads, in hours since 2024-04-16T00:00Z
    ncmd,         \* number of user commands issued so far, Retry included
    ran           \* the steps of the pipeline the last render of TokenTable ran

vars == <<tokens, loading, error, inflight, nfetch, tokensFrom, lastDone,
          columns, sortConfig, filters, page, view, viewOf, now, ncmd, ran>>

appVars == <<tokens, loading, error, inflight, nfetch, tokensFrom, lastDone>>
viewState == <<columns, sortConfig, filters>>

-----------------------------------------------------------------------------
(* Bounds of the model *)

MaxCommands == 2      \* user commands per behaviour of Spec
MaxFetches == 2       \* fetchTokens calls per behaviour of Spec
MaxLen == 4           \* records per collection drawn by SpecSort
MaxFilterLen == 1     \* records per collection drawn by SpecFilter

-----------------------------------------------------------------------------
(* JavaScript values *)

Undefined == <<"undefined">>
Num(n) == <<"number", "fin", n>>
Double(sign, k, e) == <<"number", "dbl", sign, k, e>>
NaN == <<"number", "nan", 0>>
Infinity == <<"number", "inf", 1>>
NegInfinity == <<"number", "inf", 0 - 1>>
Str(s) == <<"string", s>>
Obj(r) == <<"object", r>>

typeof(v) == v[1]
IsFinite(v) == typeof(v) = "number" /\ v[2] = "fin"
IsReal(v) == typeof(v) = "number" /\ v[2] \in {"fin", "dbl"}
IsNaN(v) == typeof(v) = "number" /\ v[2] = "nan"

\* ToBoolean: undefined, 0, NaN and "" are falsy
Truthy(v) ==
    CASE typeof(v) = "undefined" -> FALSE
      [] typeof(v) = "number" -> IF IsFinite(v) THEN v[3] # 0 ELSE ~IsNaN(v)
      [] typeof(v) = "string" -> v[2] # <<>>
      [] OTHER -> TRUE

\* ToNumber on the values a numeric field can hold: undefined is NaN
ToNumber(v) == IF typeof(v) = "number" THEN v ELSE NaN

Abs(n) == IF n < 0 THEN 0 - n ELSE n

RECURSIVE Pow2(_)
Pow2(n) == IF n <= 0 THEN 1 ELSE 2 * Pow2(n - 1)

(* A natural number of any size is the sequence of its decimal digits, the     *)
(* first digit not 0; the empty sequence is 0.                                 *)

RECURSIVE DigitsOfNat(_)
DigitsOfNat(n) == IF n = 0 THEN <<>> ELSE Append(DigitsOfNat(n \div 10), n % 10)

RECURSIVE NatOfDigits(_, _)
NatOfDigits(ds, acc) ==
    IF ds = <<>> THEN acc ELSE NatOfDigits(Tail(ds), 10 * acc + Head(ds))

\* ds from its first digit that is not 0 on
StripZeros(ds) ==
    IF \A i \in DOMAIN ds : ds[i] = 0 THEN <<>>
    ELSE SubSeq(ds, CHOOSE i \in DOMAIN ds : ds[i] # 0 /\ \A j \in 1 .. i - 1 : ds[j] = 0,
                Len(ds))

Front(ds) == SubSeq(ds, 1, Len(ds) - 1)
LastDigit(ds) == IF ds = <<>> THEN 0 ELSE ds[Len(ds)]

\* the sign of a - b: by the length, then by the first digit that differs
RECURSIVE DigitsCompare(_, _)
DigitsCompare(a, b) ==
    IF Len(a) # Len(b) THEN (IF Len(a) < Len(b) THEN 0 - 1 ELSE 1)
    ELSE IF a = <<>> THEN 0
    ELSE IF Head(a) # Head(b) THEN (IF Head(a) < Head(b) THEN 0 - 1 ELSE 1)
    ELSE DigitsCompare(Tail(a), Tail(b))

\* ds * m + carry for m up to 2^27, as many digits as ds has and those of the
\* last carry: digit by digit from the last one, a long ds by halves, the
\* digits that the second half gives beyond its n being the carry of the first
RECURSIVE Multiplied(_, _, _)
RECURSIVE MultipliedOnto(_, _, _, _)
MultipliedOnto(first, m, second, n) ==
    Multiplied(first, m, NatOfDigits(SubSeq(second, 1, Len(second) - n), 0))
        \o SubSeq(second, Len(second) - n + 1, Len(second))

Multiplied(ds, m, carry) ==
    IF carry = 0 /\ ds = <<>> THEN <<>>
    ELSE IF Len(ds) > 20
    THEN MultipliedOnto(SubSeq(ds, 1, Len(ds) \div 2), m,
                        Multiplied(SubSeq(ds, (Len(ds) \div 2) + 1, Len(ds)), m, carry),
                        Len(ds) - (Len(ds) \div 2))
    ELSE Append(Multiplied(Front(ds), m, (LastDigit(ds) * m + carry) \div 10),
                (LastDigit(ds) * m + carry) % 10)

\* n doublings, up to 27 at a time
RECURSIVE Doubled(_, _)
Doubled(ds, n) ==
    IF n <= 0 \/ ds = <<>> THEN ds
    ELSE IF n > 27 THEN Doubled(Multiplied(ds, Pow2(27), 0), n - 27)
    ELSE Multiplied(ds, Pow2(n), 0)

\* (rem * 10^Len(ds) + ds) \div m and % m for m up to 2^27 and rem < m, the
\* quotient in as many digits as ds has: long division from the first digit
\* on, a long ds by halves
RECURSIVE Divided(_, _, _)
DividedJoin(d, rest) == [d |-> d \o rest.d, rem |-> rest.rem]
DividedThen(first, second, m) == DividedJoin(first.d, Divided(second, m, first.rem))

Divided(ds, m, rem) ==
    IF ds = <<>> THEN [d |-> <<>>, rem |-> rem]
    ELSE IF Len(ds) > 20
    THEN DividedThen(Divided(SubSeq(ds, 1, Len(ds) \div 2), m, rem),
                     SubSeq(ds, (Len(ds) \div 2) + 1, Len(ds)), m)
    ELSE DividedJoin(<<(10 * rem + Head(ds)) \div m>>,
                     Divided(Tail(ds), m, (10 * rem + Head(ds)) % m))

\* n halvings, up to 27 at a time; sticky tells whether a 1 has been shifted
\* out
RECURSIVE Halved(_, _, _)
HalvedNext(h, sticky, n) == Halved(StripZeros(h.d), sticky \/ h.rem # 0, n)

Halved(ds, sticky, n) ==
    IF n <= 0 \/ ds = <<>> THEN [d |-> ds, sticky |-> sticky]
    ELSE HalvedNext(Divided(ds, Pow2(IF n > 27 THEN 27 ELSE n), 0), sticky, n - 27)

\* a + b + carry
RECURSIVE Plus(_, _, _)
Plus(a, b, carry) ==
    IF a = <<>> /\ b = <<>> THEN (IF carry = 0 THEN <<>> ELSE <<carry>>)
    ELSE IF LastDigit(a) + LastDigit(b) + carry < 10
    THEN Append(Plus(Front(a), Front(b), 0), LastDigit(a) + LastDigit(b) + carry)
    ELSE Append(Plus(Front(a), Front(b), 1), LastDigit(a) + LastDigit(b) + carry - 10)

\* a - b - borrow, for a >= b + borrow, with the zeros it starts with
RECURSIVE Minus(_, _, _)
Minus(a, b, borrow) ==
    IF a = <<>> THEN <<>>
    ELSE IF LastDigit(a) - LastDigit(b) - borrow < 0
    THEN Append(Minus(Front(a), Front(b), 1), LastDigit(a) - LastDigit(b) - borrow + 10)
    ELSE Append(Minus(Front(a), Front(b), 0), LastDigit(a) - LastDigit(b) - borrow)

(* A double is sign * k * 2^e with k < 2^53: a normal one has 2^52 <= k and    *)
(* MinExponent <= e <= MaxExponent, a subnormal one has k < 2^52 and           *)
(* e = MinExponent.  Num(n) is the double of an integer n below 2^31; every    *)
(* other finite double is Double(sign, k, e), sign being 1 or -1 and k digits. *)

\* the powers of two that bound the integers of Num and the k of a double
TwoTo ==
    (31 :> <<2, 1, 4, 7, 4, 8, 3, 6, 4, 8>>)
        @@ (50 :> <<1, 1, 2, 5, 8, 9, 9, 9, 0, 6, 8, 4, 2, 6, 2, 4>>)
        @@ (51 :> <<2, 2, 5, 1, 7, 9, 9, 8, 1, 3, 6, 8, 5, 2, 4, 8>>)
        @@ (52 :> <<4, 5, 0, 3, 5, 9, 9, 6, 2, 7, 3, 7, 0, 4, 9, 6>>)
        @@ (53 :> <<9, 0, 0, 7, 1, 9, 9, 2, 5, 4, 7, 4, 0, 9, 9, 2>>)
        @@ (54 :> <<1, 8, 0, 1, 4, 3, 9, 8, 5, 0, 9, 4, 8, 1, 9, 8, 4>>)
MinExponent == 0 - 1074
MaxExponent == 971

\* the integer part of the number ds / 10^q
Whole(ds, q) == SubSeq(ds, 1, Len(ds) - q)

(* The number (ds / 10^q) * 2^e brought to (m + f) * 2^e with 0 <= f < 1 and   *)
(* 2^53 <= m < 2^54, or with m < 2^53 at e = MinExponent - 1: m holds the 53   *)
(* bits of the double and the bit after them, sticky tells whether anything    *)
(* follows that bit.  A number of 18 digits or more is still 2^54 or more      *)
(* after three halvings for every digit beyond 18 and two more; one of 15      *)
(* digits or fewer is still below 10^16 after 93 doublings for every 28 digits *)
(* it lacks of 16, 2^93 being below 10^28; one of 16 digits below 2^53 takes   *)
(* a doubling and one more for every power of two from 2^50 to 2^52 above it.  *)
RECURSIVE Scale(_, _, _, _)
RECURSIVE ScaleHalved(_, _, _)
ScaleHalved(h, q, e) == Scale(h.d, q, e, h.sticky)

\* n doublings, or the doublings that bring e down to MinExponent - 1 when
\* these are fewer
ScaleDoubled(ds, q, e, sticky, n) ==
    IF n > e - MinExponent + 1 THEN Scale(Doubled(ds, e - MinExponent + 1), q, MinExponent - 1, sticky)
    ELSE Scale(Doubled(ds, n), q, e - n, sticky)

Scale(ds, q, e, sticky) ==
    IF Len(ds) - q >= 18
    THEN ScaleHalved(Halved(ds, sticky, 3 * (Len(ds) - q) - 52), q,
                     e + 3 * (Len(ds) - q) - 52)
    ELSE IF DigitsCompare(Whole(ds, q), TwoTo[54]) >= 0
    THEN ScaleHalved(Halved(ds, sticky, 1), q, e + 1)
    ELSE IF e = MinExponent - 1 \/ DigitsCompare(Whole(ds, q), TwoTo[53]) >= 0
    THEN [m |-> Whole(ds, q), e |-> e,
          sticky |-> sticky \/ \E i \in DOMAIN ds : i > Len(ds) - q /\ ds[i] # 0]
    ELSE IF Len(ds) - q <= 15
    THEN ScaleDoubled(ds, q, e, sticky, (93 * (16 - Len(ds) + q)) \div 28)
    ELSE ScaleDoubled(ds, q, e, sticky,
                      1 + Cardinality({n \in 50 .. 52 : DigitsCompare(Whole(ds, q), TwoTo[n]) < 0}))

\* s.m without its last bit, rounded to nearest, ties to even: up when the
\* bit is 1 and something follows it or the bit before it is 1
RoundHalfEven(s) ==
    IF LastDigit(s.m) % 2 = 1
       /\ (s.sticky \/ (10 * LastDigit(Front(s.m)) + LastDigit(s.m)) % 4 = 3)
    THEN Plus(Halved(s.m, FALSE, 1).d, <<1>>, 0)
    ELSE Halved(s.m, FALSE, 1).d

\* the double nearest a scaled number, its k and e: rounding brings k up to
\* 2^53 when m is 2^54 - 1, and the double is 2^52 with the next exponent
Nearest(s) ==
    IF Plus(s.m, <<1>>, 0) = TwoTo[54] THEN [k |-> TwoTo[52], e |-> s.e + 2]
    ELSE [k |-> RoundHalfEven(s), e |-> s.e + 1]

\* the double nearest (ds / 10^q) * 2^e
NearestDouble(ds, q, e) == Nearest(Scale(ds, q, e, FALSE))

\* sign * k * 2^e, h being k halved -e times: an integer below 2^31 is Num(n)
IntegerOr(sign, r, h) ==
    IF ~h.sticky /\ DigitsCompare(h.d, TwoTo[31]) < 0
    THEN Num(sign * NatOfDigits(h.d, 0))
    ELSE Double(sign, r.k, r.e)

\* the number sign * r.k * 2^(r.e): beyond the largest double it is an infinity
DoubleOf(sign, r) ==
    IF r.k = <<>> THEN Num(0)
    ELSE IF r.e > MaxExponent THEN (IF sign < 0 THEN NegInfinity ELSE Infinity)
    ELSE IF r.e \in (0 - 52) .. (0 - 22)
    THEN IntegerOr(sign, r, Halved(r.k, FALSE, 0 - r.e))
    ELSE Double(sign, r.k, r.e)

(* The number ds * 10^p of a decimal literal, as the double nearest to it.     *)
(* 10^309 and more is beyond every double; less than 10^-324 is nearer to 0    *)
(* than to the least double, 2^-1074.  An integer below 10^9 is itself.        *)
DecimalToDouble(sign, ds, p) ==
    IF ds = <<>> THEN Num(0)
    ELSE IF Len(ds) + p >= 310 THEN (IF sign < 0 THEN NegInfinity ELSE Infinity)
    ELSE IF Len(ds) + p <= 0 - 324 THEN Num(0)
    ELSE IF p >= 0 /\ Len(ds) + p <= 9
    THEN Num(sign * NatOfDigits(ds \o [i \in 1 .. p |-> 0], 0))
    ELSE IF p >= 0 THEN DoubleOf(sign, NearestDouble(ds \o [i \in 1 .. p |-> 0], 0, 0))
    ELSE DoubleOf(sign, NearestDouble(ds, 0 - p, 0))

\* the sign, k and e of a finite number
Parts(x) ==
    IF x[2] = "dbl" THEN [sign |-> x[3], k |-> x[4], e |-> x[5]]
    ELSE IF x[3] = 0 THEN [sign |-> 0, k |-> <<>>, e |-> MinExponent]
    ELSE [sign |-> IF x[3] < 0 THEN 0 - 1 ELSE 1]
            @@ NearestDouble(DigitsOfNat(Abs(x[3])), 0, 0)

\* the sign of a - b for the parts of two numbers: by the sign, then, among
\* numbers of one sign, by the exponent and by k
CompareParts(a, b) ==
    IF a.sign # b.sign THEN (IF a.sign < b.sign THEN 0 - 1 ELSE 1)
    ELSE IF a.e # b.e THEN (IF a.e < b.e THEN 0 - a.sign ELSE a.sign)
    ELSE a.sign * DigitsCompare(a.k, b.k)

\* the sign of x - y for two finite numbers
CompareNumbers(x, y) ==
    IF IsFinite(x) /\ IsFinite(y)
    THEN (IF x[3] < y[3] THEN 0 - 1 ELSE IF x[3] > y[3] THEN 1 ELSE 0)
    ELSE CompareParts(Parts(x), Parts(y))

\* x < y on two numbers: false as soon as one side is NaN
NumberLt(x, y) ==
    /\ ~IsNaN(x)
    /\ ~IsNaN(y)
    /\ IF IsReal(x) /\ IsReal(y) THEN CompareNumbers(x, y) < 0
       ELSE (IF IsReal(x) THEN 0 ELSE x[3]) < (IF IsReal(y) THEN 0 ELSE y[3])

\* a < b
JsLt(a, b) == NumberLt(ToNumber(a), ToNumber(b))

JsGt(a, b) == JsLt(b, a)
JsLe(a, b) == ~IsNaN(ToNumber(a)) /\ ~IsNaN(ToNumber(b)) /\ ~JsLt(b, a)
JsGe(a, b) == JsLe(b, a)

\* sa * na * 2^e + sb * nb * 2^e, for naturals na and nb: a sign, a natural
\* and the exponent
SumAt(sa, na, sb, nb, e) ==
    IF sa = sb THEN [sign |-> sa, n |-> Plus(na, nb, 0), e |-> e]
    ELSE IF DigitsCompare(na, nb) >= 0
    THEN [sign |-> sa, n |-> StripZeros(Minus(na, nb, 0)), e |-> e]
    ELSE [sign |-> sb, n |-> StripZeros(Minus(nb, na, 0)), e |-> e]

\* a + b on the parts of two numbers, before rounding: one that is 0, or more
\* than 64 binary places below the other, leaves the other as it is
SumParts(a, b) ==
    IF b.sign = 0 \/ (a.sign # 0 /\ a.e - b.e > 64) THEN [sign |-> a.sign, n |-> a.k, e |-> a.e]
    ELSE IF a.sign = 0 \/ b.e - a.e > 64 THEN [sign |-> b.sign, n |-> b.k, e |-> b.e]
    ELSE IF a.e >= b.e THEN SumAt(a.sign, Doubled(a.k, a.e - b.e), b.sign, b.k, b.e)
    ELSE SumAt(a.sign, a.k, b.sign, Doubled(b.k, b.e - a.e), a.e)

\* the double nearest a sum
RoundSum(s) == IF s.n = <<>> THEN Num(0) ELSE DoubleOf(s.sign, NearestDouble(s.n, 0, s.e))

\* a - b on numbers: integers whose difference is below 2^31 are subtracted as
\* they are
JsSub(a, b) ==
    IF IsNaN(a) \/ IsNaN(b) THEN NaN
    ELSE IF ~IsReal(a) THEN (IF ~IsReal(b) /\ b[3] = a[3] THEN NaN ELSE a)
    ELSE IF ~IsReal(b) THEN (IF b[3] > 0 THEN NegInfinity ELSE Infinity)
    ELSE IF IsFinite(a) /\ IsFinite(b) /\ Abs(a[3]) < Pow2(30) /\ Abs(b[3]) < Pow2(30)
    THEN Num(a[3] - b[3])
    ELSE RoundSum(SumParts(Parts(a), [Parts(b) EXCEPT !.sign = 0 - @]))

\* the sign Array.prototype.sort reads off a comparator's result: NaN counts as +0
Sign(v) ==
    IF IsReal(v) THEN (IF v[3] < 0 THEN -1 ELSE IF v[3] > 0 THEN 1 ELSE 0)
    ELSE IF IsNaN(v) THEN 0
    ELSE v[3]

-----------------------------------------------------------------------------
(* Texts *)

Lower(c) ==
    CASE c = "A" -> "a"
      [] c = "B" -> "b"
      [] OTHER -> c

toLowerCase(s) == [i \in DOMAIN s |-> Lower(s[i])]

\* String.prototype.includes
includes(s, sub) ==
    \E k \in 0 .. (Len(s) - Len(sub)) :
        \A i \in 1 .. Len(sub) : s[k + i] = sub[i]

Digits == <<"0", "1", "2", "3", "4", "5", "6", "7", "8", "9">>

IsDigit(c) == \E d \in DOMAIN Digits : Digits[d] = c

\* length of the longest prefix of s made of digits
DigitPrefix(s) ==
    IF \A i \in DOMAIN s : IsDigit(s[i]) THEN Len(s)
    ELSE (CHOOSE i \in DOMAIN s : ~IsDigit(s[i]) /\ \A j \in 1 .. i - 1 : IsDigit(s[j])) - 1

\* WhiteSpace and LineTerminator, the characters StrWhiteSpaceChar stands for:
\* tab, line tabulation, form feed, the space separators and the byte order
\* mark; line feed, carriage return, line and paragraph separator.  The
\* characters beyond ASCII are written \uXXXX; those a string can hold are
\* there as they are, too.
IsWhiteSpace(c) ==
    c \in {"\t", "\f", " ", "\\u000B", "\\u00A0", "\\uFEFF", "\\u1680", "\\u2000",
          "\\u2001", "\\u2002", "\\u2003", "\\u2004", "\\u2005", "\\u2006", "\\u2007",
          "\\u2008", "\\u2009", "\\u200A", "\\u202F", "\\u205F", "\\u3000",
          "", " ", "﻿", " ",
          "\n", "\r", "\\u2028", "\\u2029"}

\* s from its first character that is not white space on
TrimStart(s) ==
    IF \A i \in DOMAIN s : IsWhiteSpace(s[i]) THEN <<>>
    ELSE SubSeq(s, CHOOSE i \in DOMAIN s :
                       ~IsWhiteSpace(s[i]) /\ \A j \in 1 .. i - 1 : IsWhiteSpace(s[j]),
                Len(s))

\* the digits of a text of digits, as numbers
DigitValues(s) ==
    SubSeq([i \in DOMAIN s |-> (CHOOSE d \in DOMAIN Digits : Digits[d] = s[i]) - 1], 1, Len(s))

\* the digits at the start of a text, as a number; 0 when there are none.  A
\* number of more than six digits counts as 999999: a power of ten that takes
\* every literal out of the range of a double
LeadingNumber(s) ==
    IF Len(StripZeros(DigitValues(SubSeq(s, 1, DigitPrefix(s))))) > 6 THEN 999999
    ELSE NatOfDigits(DigitValues(SubSeq(s, 1, DigitPrefix(s))), 0)

\* the exponent part: e or E, an optional sign and digits; 0 when the text
\* does not start with one
ExponentPart(s) ==
    IF s = <<>> \/ Head(s) \notin {"e", "E"} THEN 0
    ELSE IF Tail(s) # <<>> /\ Head(Tail(s)) = "-" THEN 0 - LeadingNumber(Tail(Tail(s)))
    ELSE IF Tail(s) # <<>> /\ Head(Tail(s)) = "+" THEN LeadingNumber(Tail(Tail(s)))
    ELSE LeadingNumber(Tail(s))

\* the number of digits of the fraction a text starts with: a point and digits
FractionDigits(s) ==
    IF s # <<>> /\ Head(s) = "." THEN DigitPrefix(Tail(s)) ELSE 0

\* the literal of a text without sign: n1 digits, then rest
Mantissa(negative, u, n1, rest) ==
    [negative |-> negative,
     infinity |-> Len(u) >= 8
                    /\ SubSeq(u, 1, 8) = <<"I", "n", "f", "i", "n", "i", "t", "y">>,
     found |-> n1 + FractionDigits(rest) > 0,
     digits |-> StripZeros(DigitValues(SubSeq(u, 1, n1)
                                         \o SubSeq(rest, 2, 1 + FractionDigits(rest)))),
     p |-> ExponentPart(IF rest # <<>> /\ Head(rest) = "."
                        THEN SubSeq(rest, 2 + FractionDigits(rest), Len(rest))
                        ELSE rest) - FractionDigits(rest)]

Unsigned(negative, u) == Mantissa(negative, u, DigitPrefix(u), SubSeq(u, DigitPrefix(u) + 1, Len(u)))

Signed(t) ==
    IF t # <<>> /\ Head(t) \in {"+", "-"} THEN Unsigned(Head(t) = "-", Tail(t))
    ELSE Unsigned(FALSE, t)

(* The longest prefix of the trimmed text that is a StrDecimalLiteral: a sign,  *)
(* then Infinity, or digits with an optional fraction (or a fraction alone),    *)
(* then an exponent when e or E is followed by digits.  digits and p give the   *)
(* value digits * 10^p.                                                         *)
StrDecimalLiteral(s) == Signed(TrimStart(s))

\* the value of a literal; `none` when the text starts with no literal
ValueOf(lit, none) ==
    IF lit.infinity THEN (IF lit.negative THEN NegInfinity ELSE Infinity)
    ELSE IF ~lit.found THEN none
    ELSE DecimalToDouble(IF lit.negative THEN 0 - 1 ELSE 1, lit.digits, lit.p)

\* parseFloat: the value of that prefix, NaN when there is none
parseFloat(s) == ValueOf(StrDecimalLiteral(s), NaN)

\* irrespective of case; among texts with the same letters, lower case first
Rank(level, c) ==
    IF level = "letter" THEN (IF Lower(c) = "a" THEN 1 ELSE IF Lower(c) = "b" THEN 2 ELSE 3)
    ELSE (IF Lower(c) = c THEN 0 ELSE 1)

RECURSIVE CompareBy(_, _, _)
CompareBy(level, s, t) ==
    CASE s = <<>> /\ t = <<>> -> 0
      [] s = <<>> -> -1
      [] t = <<>> -> 1
      [] OTHER -> IF Rank(level, Head(s)) < Rank(level, Head(t)) THEN -1
                  ELSE IF Rank(level, Head(s)) > Rank(level, Head(t)) THEN 1
                  ELSE CompareBy(level, Tail(s), Tail(t))

localeCompare(s, t) ==
    IF CompareBy("letter", s, t) # 0 THEN CompareBy("letter", s, t)
    ELSE CompareBy("case", s, t)

-----------------------------------------------------------------------------
(* Program constants *)

Threshold == 310          \* isHyperliquid: slippage <= 0.31, in thousandths
HoursPerDay == 24         \* 1000 * 60 * 60 * 24 ms
OverrideDeploy == 0       \* new Date('2024-04-16'), the origin of the clock

OverrideId == Str(<<"0xc1fb593aeffbeb02f85e0308e9956a90">>)

-----------------------------------------------------------------------------
(* Column registry and the initial view state *)

Col(k, l, v, r) == [key |-> k, label |-> l, visible |-> v, required |-> r]

\* useState<Column[]>([...]): `required` is absent (falsy) where not given
InitialColumns ==
    << Col("token", "Token", TRUE, TRUE),
       Col("price_change_24h", "24h %", TRUE, TRUE),
       Col("mark_price", "Price", TRUE, TRUE),
       Col("market_cap", "MC", TRUE, TRUE),
       Col("holders_count", "Holders", TRUE, FALSE),
       Col("slippage", "Spread", FALSE, FALSE),
       Col("holders.concentration.top1_share", "Top holder %", TRUE, FALSE),
       Col("holders.concentration.top5_share", "Top 5 holders %", TRUE, FALSE),
       Col("holders.concentration.top20_share", "Top 20 holders %", TRUE, FALSE),
       Col("holders.total_burned_percent", "Burned %", FALSE, FALSE),
       Col("holders.hip2.percent", "HIP-2 %", FALSE, FALSE),
       Col("deploy_time", "Age", TRUE, FALSE),
       Col("total_bid_size", "Total Bid Size", FALSE, FALSE),
       Col("total_ask_size", "Total Ask Size", FALSE, FALSE),
       Col("total_bid_size_usd", "Total Bid Size (USD)", FALSE, FALSE),
       Col("total_ask_size_usd", "Total Ask Size (USD)", FALSE, FALSE) >>

InitialSortConfig == [key |-> "market_cap", direction |-> "desc"]

InitialFilters == [search |-> <<>>, liquidity |-> "all", mcMin |-> <<>>, mcMax |-> <<>>]

\* const visibleColumns = columns.filter(col => col.visible)
visibleColumns(cols) == SelectSeq(cols, LAMBDA col : col.visible)

-----------------------------------------------------------------------------
(* Field accessor *)

\* path.split('.') on the keys of the registry; any other key has no dot
split(path) ==
    CASE path = "holders.concentration.top1_share" -> <<"holders", "concentration", "top1_share">>
      [] path = "holders.concentration.top5_share" -> <<"holders", "concentration", "top5_share">>
      [] path = "holders.concentration.top20_share" -> <<"holders", "concentration", "top20_share">>
      [] path = "holders.total_burned_percent" -> <<"holders", "total_burned_percent">>
      [] path = "holders.hip2.percent" -> <<"holders", "hip2", "percent">>
      [] OTHER -> <<path>>

\* reduce with the callback (acc, part) => (acc ? acc[part] : undefined)
RECURSIVE reduce(_, _)
reduce(acc, parts) ==
    IF parts = <<>> THEN acc
    ELSE IF Truthy(acc) /\ typeof(acc) = "object" /\ Head(parts) \in DOMAIN acc[2]
    THEN reduce(acc[2][Head(parts)], Tail(parts))
    ELSE reduce(Undefined, Tail(parts))

getNestedValue(obj, path) == reduce(Obj(obj), split(path))

\* slippage < 0.31
isHyperliquidStrict(slippage) == JsLt(slippage, Num(Threshold))

isHyperliquid(slippage) == JsLe(slippage, Num(Threshold))

-----------------------------------------------------------------------------
(* View pipeline: index, filter, sort *)

\* data.map((token, index) => ({ ...token, index }))
indexedDataFromZero(data) == [i \in DOMAIN data |-> ("index" :> Num(i - 1)) @@ data[i]]

\* data.map((token, index) => ({ ...token, index: index + 1 }))
indexedData(data) == [i \in DOMAIN data |-> ("index" :> Num(i)) @@ data[i]]

\* the callback of indexedData.filter
Passes(token, f) ==
    LET mcMin == IF f.mcMin # <<>> THEN parseFloat(f.mcMin) ELSE Num(0)
        mcMax == IF f.mcMax # <<>> THEN parseFloat(f.mcMax) ELSE Infinity
        tokenIsHyperliquid == isHyperliquid(token.slippage)
    IN  /\ ~(f.search # <<>>
             /\ ~includes(toLowerCase(token.token[2]), toLowerCase(f.search)))
        /\ ~(f.liquidity # "all" /\ f.liquidity = "hyperliquid" /\ ~tokenIsHyperliquid)
        /\ ~(f.liquidity # "all" /\ f.liquidity = "non-hyperliquid" /\ tokenIsHyperliquid)
        /\ ~(JsLt(token.market_cap, mcMin) \/ JsGt(token.market_cap, mcMax))

filteredData(indexed, f) ==
    LET Keep(token) == Passes(token, f)
    IN  SelectSeq(indexed, Keep)

\* new Date(value).getTime(): NaN unless the value is a date string
DateOf(v) ==
    IF typeof(v) = "string" /\ Len(v[2]) = 2 /\ v[2][1] = "iso" THEN Num(v[2][2]) ELSE NaN

\* Math.floor(diff / (1000 * 60 * 60 * 24))
Days(diff) == IF IsFinite(diff) THEN Num(diff[3] \div HoursPerDay) ELSE NaN

\* Math.floor((now - deployDate) / (1000 * 60 * 60 * 24))
DaysSince(clock, date) == Days(JsSub(Num(clock), date))

\* the age the comparator computes for a record
SortAge(token, value, clock) ==
    IF token.token_id = OverrideId THEN DaysSince(clock, Num(OverrideDeploy))
    ELSE DaysSince(clock, DateOf(value))

\* the callback with the age branch taken for every sort key
compareAgesAlways(a, b, sc, aNow, bNow) ==
    LET aAge == SortAge(a, getNestedValue(a, "deploy_time"), aNow)
        bAge == SortAge(b, getNestedValue(b, "deploy_time"), bNow)
    IN  IF sc.direction = "asc" THEN JsSub(aAge, bAge) ELSE JsSub(bAge, aAge)

\* the callback without the direction: a difference, ascending, whatever the
\* sort state says
compareAscendingOnly(a, b, sc, aNow, bNow) ==
    LET aValue == getNestedValue(a, sc.key)
        bValue == getNestedValue(b, sc.key)
    IN  IF typeof(aValue) = "number" /\ typeof(bValue) = "number"
        THEN JsSub(aValue, bValue)
        ELSE Num(0)

\* the callback with an absent value ordered after every other value
compareAbsentLast(a, b, sc, aNow, bNow) ==
    LET aValue == getNestedValue(a, sc.key)
        bValue == getNestedValue(b, sc.key)
    IN  IF aValue = Undefined /\ bValue # Undefined THEN Num(1)
        ELSE IF aValue # Undefined /\ bValue = Undefined THEN Num(0 - 1)
        ELSE Num(0)

\* the callback of [...filteredData].sort.  The age branch reads the clock
\* twice, new Date() for a and then new Date() for b: aNow and bNow.
compare(a, b, sc, aNow, bNow) ==
    LET aValue == getNestedValue(a, sc.key)
        bValue == getNestedValue(b, sc.key)
    IN  IF sc.key = "deploy_time"
        THEN LET aAge == SortAge(a, aValue, aNow)
                 bAge == SortAge(b, bValue, bNow)
             IN  IF sc.direction = "asc" THEN JsSub(aAge, bAge) ELSE JsSub(bAge, aAge)
        ELSE IF typeof(aValue) = "number" /\ typeof(bValue) = "number"
        THEN IF sc.direction = "asc" THEN JsSub(aValue, bValue) ELSE JsSub(bValue, aValue)
        ELSE IF typeof(aValue) = "string" /\ typeof(bValue) = "string"
        THEN IF sc.direction = "asc" THEN Num(localeCompare(aValue[2], bValue[2]))
                                     ELSE Num(localeCompare(bValue[2], aValue[2]))
        ELSE Num(0)

(* The clock of one render.  A render calls new Date() several times, and time *)
(* passes while it runs: the calls up to number `at` read `before`, the later  *)
(* calls read `after`.                                                         *)
Readings(before, at, after) == [before |-> before, at |-> at, after |-> after]
Steady(clock) == Readings(clock, 0, clock)
ReadClock(reads, k) == IF k <= reads.at THEN reads.before ELSE reads.after

\* the new Date() calls that `calls` calls of the callback have made
ClockReads(sc, calls) == IF sc.key = "deploy_time" THEN 2 * calls ELSE 0

(* Array.prototype.sort.  The language fixes its result (the stable sort) only *)
(* for a consistent comparator; for any other the order is the engine's.  This *)
(* is the engine of Node and Chrome on an array of fewer than 64 elements:     *)
(* find the run the array starts with, reversing it when strictly descending,  *)
(* then insert every later element by binary search.  `log` holds the calls of *)
(* the callback made so far; their number fixes the clock readings of the next.*)
\* the order the sort reads off the callback for a pair
Order(a, b, sc, reads, calls) ==
    Sign(compare(a, b, sc, ReadClock(reads, ClockReads(sc, calls) + 1),
                           ReadClock(reads, ClockReads(sc, calls) + 2)))

\* the calls of the callback made so far, with the pair each was given
Called(log, a, b) == Append(log, <<a.index, b.index>>)

\* the end of the run the array starts with: the elements in order, each
\* below the one before it (descending) or none of them so
RECURSIVE RunStop(_, _, _, _, _, _)
RunStop(arr, sc, reads, log, descending, idx) ==
    IF idx > Len(arr) THEN [stop |-> idx - 1, log |-> log]
    ELSE IF (Order(arr[idx], arr[idx - 1], sc, reads, Len(log)) < 0) # descending
    THEN [stop |-> idx - 1, log |-> Called(log, arr[idx], arr[idx - 1])]
    ELSE RunStop(arr, sc, reads, Called(log, arr[idx], arr[idx - 1]), descending, idx + 1)

Middle(left, right) == left + ((right - left) \div 2)

\* the place of the pivot in the sorted arr[left .. right - 1], by bisection
RECURSIVE Search(_, _, _, _, _, _, _)
Search(arr, sc, reads, log, pivot, left, right) ==
    IF left >= right THEN [left |-> left, log |-> log]
    ELSE IF Order(pivot, arr[Middle(left, right)], sc, reads, Len(log)) < 0
    THEN Search(arr, sc, reads, Called(log, pivot, arr[Middle(left, right)]), pivot,
                left, Middle(left, right))
    ELSE Search(arr, sc, reads, Called(log, pivot, arr[Middle(left, right)]), pivot,
                Middle(left, right) + 1, right)

\* arr[start] moved to the place `left`, the elements between shifted up
Insert(arr, start, left) ==
    [p \in DOMAIN arr |->
        IF p = left THEN arr[start]
        ELSE IF p > left /\ p <= start THEN arr[p - 1]
        ELSE arr[p]]

\* arr[1 .. start - 1] is sorted: every later element is inserted in turn, at
\* the place `found` that the search gives for it
RECURSIVE BinaryInsertionSort(_, _, _, _, _)
RECURSIVE InsertFound(_, _, _, _, _)
InsertFound(arr, sc, reads, start, found) ==
    BinaryInsertionSort(Insert(arr, start, found.left), sc, reads, found.log, start + 1)

BinaryInsertionSort(arr, sc, reads, log, start) ==
    IF start > Len(arr) THEN [arr |-> arr, log |-> log]
    ELSE InsertFound(arr, sc, reads, start,
                     Search(arr, sc, reads, log, arr[start], 1, start))

\* the array with its first run made ascending, then the rest inserted
SortAfterRun(filtered, sc, reads, descending, run) ==
    BinaryInsertionSort(IF descending
                        THEN [i \in 1 .. run.stop |-> filtered[run.stop + 1 - i]]
                                \o SubSeq(filtered, run.stop + 1, Len(filtered))
                        ELSE filtered,
                        sc, reads, run.log, run.stop + 1)

\* the first run is descending when the second element is below the first
SortRun(filtered, sc, reads, descending) ==
    SortAfterRun(filtered, sc, reads, descending,
                 RunStop(filtered, sc, reads, Called(<<>>, filtered[2], filtered[1]),
                         descending, 3))

\* the sort, with the calls of the callback it made
ArraySort(filtered, sc, reads) ==
    IF Len(filtered) < 2 THEN [arr |-> filtered, log |-> <<>>]
    ELSE SortRun(filtered, sc, reads, Order(filtered[2], filtered[1], sc, reads, 0) < 0)

-----------------------------------------------------------------------------
(* Presentation formatter *)

Throw == <<"TypeError">>

\* column.key.includes('percent') and column.key.includes('share'), on the
\* keys of the registry
includesPercent(key) == key \in {"holders.total_burned_percent", "holders.hip2.percent"}
includesShare(key) ==
    key \in {"holders.concentration.top1_share", "holders.concentration.top5_share",
             "holders.concentration.top20_share"}

\* 2^s modulo 1000
RECURSIVE PowMod(_)
PowMod(s) == IF s = 0 THEN 1 ELSE (2 * PowMod(s - 1)) % 1000

\* 52 - e for the binary exponent e of m/1000 (2^e <= m/1000 < 2^(e+1)): the
\* double nearest m/1000 is a multiple of 2^(e - 52)
RECURSIVE Shift(_, _)
Shift(m, j) ==
    IF m >= 1000
    THEN (IF 2000 * Pow2(j) <= m THEN Shift(m, j + 1) ELSE 52 - j)
    ELSE (IF m * Pow2(j) < 1000 THEN Shift(m, j + 1) ELSE 52 + j)

\* the double nearest m/1000 lies below m/1000: the remainder of
\* m * 2^s / 1000 is rounded away, to the nearest multiple of 2^(e - 52)
DoubleIsBelow(m) == (((m % 1000) * PowMod(Shift(m, 0))) % 1000) \in 1 .. 499

\* value.toFixed(2): a method of numbers only.  A number of thousandths is
\* rounded to hundredths on the double it is: to n with n / 100 nearest that
\* double, the larger n of two.  The sign is kept apart, as toFixed does, so
\* that a negative number rounding to zero reads -0.00.
toFixed2(value) ==
    IF typeof(value) # "number" THEN Throw
    ELSE IF ~IsFinite(value)
    THEN <<"fixed2", IF IsNaN(value) THEN "NaN"
                     ELSE IF value[3] < 0 THEN "-Infinity" ELSE "Infinity", 0>>
    ELSE <<"fixed2", IF value[3] < 0 THEN "-" ELSE "",
           IF Abs(value[3]) % 10 = 5 /\ DoubleIsBelow(Abs(value[3]))
           THEN Abs(value[3]) \div 10 ELSE (Abs(value[3]) + 5) \div 10>>

\* num.toLocaleString('en-US', {maximumFractionDigits: 0}): undefined has no
\* such method; a string returns itself; an integer is grouped in thousands
formatLargeNumber(num) ==
    IF typeof(num) = "undefined" THEN Throw
    ELSE IF typeof(num) = "number" THEN <<"grouped", num>>
    ELSE <<"text", num>>

\* formatAge(dateString, tokenId): `${diffInDays}d`, clock being what its
\* new Date() reads
formatAge(dateString, tokenId, clock) ==
    <<"days", DaysSince(clock, IF tokenId = OverrideId THEN Num(OverrideDeploy)
                               ELSE DateOf(dateString))>>

\* one <td> of a row: the display value and, for the 24h change, the colour
Cell(column, token, clock) ==
    LET value == getNestedValue(token, column.key)
    IN  IF column.key = "token"
        THEN IF isHyperliquid(token.slippage)
             THEN <<"link", token.token, "Droplets", <<>>>>
             ELSE IF toFixed2(token.slippage) = Throw THEN Throw
             ELSE <<"link", token.token, "Waves", toFixed2(token.slippage)>>
        ELSE IF column.key = "mark_price" THEN <<"$", value, "text-gray-300">>
        ELSE IF \/ column.key = "price_change_24h"
                \/ column.key = "slippage"
                \/ includesPercent(column.key)
                \/ includesShare(column.key)
        THEN IF toFixed2(value) = Throw THEN Throw
             ELSE <<"%", toFixed2(value),
                    IF column.key = "price_change_24h"
                    THEN (IF JsGe(value, Num(0)) THEN "text-green-400" ELSE "text-red-400")
                    ELSE "text-gray-300">>
        ELSE IF \/ column.key = "market_cap"
                \/ column.key = "total_bid_size_usd"
                \/ column.key = "total_ask_size_usd"
        THEN IF formatLargeNumber(value) = Throw THEN Throw
             ELSE <<"$", formatLargeNumber(value), "text-gray-300">>
        ELSE IF column.key = "deploy_time"
        THEN <<"age", formatAge(value, token.token_id, clock), "text-gray-300">>
        ELSE <<"raw", value, "text-gray-300">>

\* one <tr>: the React key, the # cell and the cells of the visible columns;
\* the Age cell is the one cell that reads the clock
Row(token, visible, clock) ==
    [key |-> token.token_id,
     index |-> token.index,
     cells |-> [c \in DOMAIN visible |-> Cell(visible[c], token, clock)]]

\* the formatter of one of the cells of the row has thrown
RowThrows(row) == \E c \in DOMAIN row.cells : row.cells[c] = Throw

AgeVisible(cols) == \E c \in DOMAIN cols : cols[c].key = "deploy_time" /\ cols[c].visible

\* the output of a render and the number of new Date() calls it made; a render
\* that throws has no output
NoView == [status |-> "none", rows |-> <<>>, clockReads |-> 0]
Thrown == [status |-> "TypeError", rows |-> <<>>, clockReads |-> 0]

\* the rows of the sorted records: the Age cell of each row in turn reads the
\* clock, after the readings the sort has made
TableRows(sorted, visible, reads, sortReads) ==
    [i \in DOMAIN sorted |-> Row(sorted[i], visible, ReadClock(reads, sortReads + i))]

\* the output of a render that has made the rows
RenderRows(rows, clockReads) ==
    IF \E i \in DOMAIN rows : RowThrows(rows[i]) THEN Thrown
    ELSE [status |-> "ok", rows |-> rows, clockReads |-> clockReads]

RenderSorted(sort, cols, sc, reads) ==
    RenderRows(TableRows(sort.arr, visibleColumns(cols), reads,
                         ClockReads(sc, Len(sort.log))),
               ClockReads(sc, Len(sort.log))
                   + (IF AgeVisible(cols) THEN Len(sort.arr) ELSE 0))

\* token.token.toLowerCase() is reached, and is not a function, when the search
\* text is non-empty and the symbol of a record is not a string: the callback
\* of the filter throws
FilterThrows(indexed, f) ==
    f.search # <<>> /\ \E i \in DOMAIN indexed : typeof(indexed[i].token) # "string"

RenderIndexed(indexed, cols, f, sc, reads) ==
    IF FilterThrows(indexed, f) THEN Thrown
    ELSE RenderSorted(ArraySort(filteredData(indexed, f), sc, reads), cols, sc, reads)

\* the body of TokenTable: index, filter, sort, then the rows.  The callback
\* of the sort reads the clock first, then the Age cell of each row in turn.
RenderTable(data, cols, f, sc, reads) ==
    RenderIndexed(indexedData(data), cols, f, sc, reads)

-----------------------------------------------------------------------------
(* Inputs: the records, collections and texts the behaviours draw from *)

Holders(top1, top5, top20, burned, hip2) ==
    Obj([concentration |-> Obj([top1_share |-> Num(top1), top5_share |-> Num(top5),
                                top20_share |-> Num(top20)]),
         total_burned_percent |-> Num(burned),
         hip2 |-> Obj([percent |-> Num(hip2)])])

\* a record of the TokenData shape; the size fields are not part of it
Token(symbol, id, slippage, cap, deployed) ==
    [token |-> Str(symbol), token_id |-> Str(<<id>>), slippage |-> Num(slippage),
     mark_price |-> Num(2), price_change_24h |-> Num(0 - 3456),
     holders_count |-> Num(12), fdv |-> Num(cap), market_cap |-> Num(cap),
     holders |-> Holders(40123, 60123, 80123, 1234, 2345),
     deploy_time |-> Str(<<"iso", deployed>>),
     total_bid_size |-> Undefined, total_ask_size |-> Undefined,
     total_bid_size_usd |-> Undefined, total_ask_size_usd |-> Undefined]

Sized(token, size) ==
    [token EXCEPT !.total_bid_size = Num(size), !.total_ask_size = Num(size),
                  !.total_bid_size_usd = Num(size), !.total_ask_size_usd = Num(size)]

AAA == Sized(Token(<<"A", "A", "A">>, "0xaaa", 200, 100, 10), 3)
BBB == Sized(Token(<<"B", "B", "B">>, "0xbbb", 500, 50, 20), 2)

\* the snapshots the data source serves in Spec
Snapshots ==
    {<<AAA, BBB>>, <<BBB, Sized(Token(<<"A", "b">>, "0xab", 310, 50, 30), 1), AAA>>}

\* the records SpecSort draws from: a tie on market_cap and on the symbol's
\* letters, deployments less than a day apart, a record without size fields,
\* a record whose size is a text, a record without the holders block, and the
\* record of the age override
SortRecords ==
    { Sized(Token(<<"a">>, "0x1", 200, 3, 10), 3),
      Sized(Token(<<"B">>, "0x2", 200, 2, 20), 2),
      Token(<<"A">>, "0x3", 200, 2, 20),
      [Token(<<"b">>, "0x6", 200, 3, 30) EXCEPT !.total_bid_size = Str(<<"2">>)],
      [Sized(Token(<<"a", "b">>, "0x5", 200, 2, 10), 2) EXCEPT !.holders = Undefined],
      Sized(Token(<<"a">>, OverrideId[2][1], 200, 4, 100), 4) }

\* the texts of a bound box SpecFilter draws from.  The boxes are inputs of
\* type number: e.target.value is the empty text or a valid floating-point
\* number (an optional "-", digits, a fraction, an exponent), and the empty
\* text whatever else has been typed.
BoundTexts ==
    { <<>>, <<"5", "0">>, <<"-", "1">>, <<"6", "e", "1">>, <<".", "5", "0", "5", "e", "2">>,
      <<"1", "E", "2">> }

\* injective sequences over S of length at most n
Lists(S, n) ==
    UNION { { s \in [1 .. k -> S] : \A i, j \in 1 .. k : s[i] = s[j] => i = j } :
            k \in 0 .. n }

\* the arguments the user commands take in Spec
ToggleKeys == {"token", "slippage", "holders_count", "no_such_column"}
SortKeys == {"market_cap", "token"}
CommandSearches == {<<"a">>}
CommandBounds == {<<"6", "0">>}

\* the deploy_time values the record of the age override may report
DeployTimes == {Str(<<"iso", 10>>), Str(<<"iso", 100>>), Str(<<"x">>), Undefined}

\* clock readings: Times[1] at load, the later one after time has passed
Times == <<36, 56>>

\* what a fetch fails with: the Error of the response that is not ok, the
\* TypeError of a fetch that rejects, an Error without a message, and a
\* rejection with a value that is no Error
Failures ==
    { [isError |-> TRUE, message |-> "Failed to fetch token data"],
      [isError |-> TRUE, message |-> "Failed to fetch"],
      [isError |-> TRUE, message |-> ""],
      [isError |-> FALSE, message |-> "timeout"] }

-----------------------------------------------------------------------------
(* Rendering *)

Inputs(data, f, sc, reads) == [data |-> data, filters |-> f, sortConfig |-> sc, clock |-> reads]

(* The steps a render of TokenTable runs.  The index step is a statement of    *)
(* the component's body: data.map makes a new array in every render.  The      *)
(* filter step is useMemo(..., [indexedData, filters]) and the sort step is    *)
(* useMemo(..., [filteredData, sortConfig]): each runs at mount and whenever   *)
(* one of its dependencies is not the object of the previous render.  repl is  *)
(* the set of state objects that a setter has replaced.  A render whose filter  *)
(* callback throws ends there: the sort step, which comes after it in the      *)
(* body, is not run.                                                           *)
Steps(mount, repl, filterThrows) ==
    LET index == {"index"}
        filter == IF mount \/ "index" \in index \/ "filters" \in repl
                  THEN {"filter"} ELSE {}
        sort == IF ~filterThrows /\ (mount \/ "filter" \in filter \/ "sortConfig" \in repl)
                THEN {"sort"} ELSE {}
    IN  index \cup filter \cup sort

\* the most calls bisection makes to place an element among m sorted ones
RECURSIVE Bisections(_)
Bisections(m) == IF m <= 0 THEN 0 ELSE 1 + Bisections(m \div 2)

\* the most calls that place, each among the elements before it, the elements
\* from the third to the one after the m-th
RECURSIVE InsertionCalls(_)
InsertionCalls(m) == IF m < 2 THEN 0 ELSE Bisections(m) + InsertionCalls(m - 1)

\* the most new Date() calls a render makes: two for every call of the
\* callback of a sort by age, and one for every row.  A sort of n elements
\* calls its callback once for two elements; for more, the run may end at the
\* second element, found with two calls, and every later element is placed
\* by bisection.
MostReads(data, cols, sc) ==
    (IF sc.key # "deploy_time" \/ Len(data) < 2 THEN 0
     ELSE IF Len(data) = 2 THEN 2
     ELSE 2 * (2 + InsertionCalls(Len(data) - 1)))
        + (IF AgeVisible(cols) THEN Len(data) ELSE 0)

\* the clocks a render may run under: time stands still, or it has moved on
\* to a later instant before the first reading or after some of the readings
ClocksOf(most) ==
    {Steady(now)}
        \cup { IF at = 0 THEN Steady(Times[t]) ELSE Readings(now, at, Times[t]) :
                 at \in 0 .. most - 1, t \in {u \in DOMAIN Times : Times[u] > now} }

error_null == "null"

\* what App puts on the page: loading ? spinner : error ? panel : <TokenTable>
PageOf(l, e) ==
    IF l THEN "spinner" ELSE IF e # error_null /\ e # "" THEN "error" ELSE "table"

mounted == page = "table"

\* the page after a render of TokenTable that read `reads` and gave `body`; a
\* clock that moves after the last reading has not moved for the render
Rendered(data, f, sc, reads, body) ==
    /\ view' = body
    /\ viewOf' = Inputs(data, f, sc, IF body.clockReads > reads.at THEN reads
                                     ELSE Steady(now))
    /\ now' = IF body.clockReads > reads.at THEN reads.after ELSE now
    /\ page' = IF body.status = "ok" THEN "table" ELSE "blank"

(* React renders TokenTable on the props and the state the step has left.  A   *)
(* render that throws takes the page down: nothing catches it.                 *)
RenderTokenTable(data, cols, f, sc, mount, repl) ==
    /\ \E reads \in ClocksOf(MostReads(data, cols, sc)) :
          Rendered(data, f, sc, reads, RenderTable(data, cols, f, sc, reads))
    /\ ran' = Steps(mount, repl, FilterThrows(indexedData(data), f))

\* the inputs of no render
NoInputs == Inputs(<<>>, InitialFilters, InitialSortConfig, Steady(Times[1]))

\* TokenTable is on the page after the render, with the state cols, f, sc
ShowTokenTable(data, cols, f, sc, mount, repl) ==
    /\ columns' = cols
    /\ sortConfig' = sc
    /\ filters' = f
    /\ RenderTokenTable(data, cols, f, sc, mount, repl)

(* React renders App on the state the step has left.  A TokenTable that was    *)
(* not on the page is mounted: its useState calls take their initial values.   *)
(* A TokenTable that is taken off the page is unmounted: its state is gone,    *)
(* and the variables of the view state hold what the next mount starts with.   *)
RenderApp(data, l, e, repl) ==
    IF PageOf(l, e) = "table"
    THEN IF mounted
         THEN ShowTokenTable(data, columns, filters, sortConfig, FALSE, repl)
         ELSE ShowTokenTable(data, InitialColumns, InitialFilters, InitialSortConfig,
                             TRUE, repl)
    ELSE /\ page' = PageOf(l, e)
         /\ columns' = InitialColumns
         /\ sortConfig' = InitialSortConfig
         /\ filters' = InitialFilters
         /\ view' = NoView
         /\ viewOf' = NoInputs
         /\ ran' = {}
         /\ UNCHANGED now

-----------------------------------------------------------------------------
(* App: the data source *)

\* fetchTokens is called: once by the effect, then by every interval tick
StartFetch ==
    /\ page # "blank"
    /\ nfetch < MaxFetches
    /\ nfetch' = nfetch + 1
    /\ inflight' = inflight \cup {nfetch + 1}
    /\ UNCHANGED <<tokens, loading, error, tokensFrom, lastDone, viewState,
                   page, view, viewOf, now, ncmd, ran>>

\* the response is ok: setTokens(data); setError(null); finally setLoading(false)
FetchSuccess(id, data) ==
    /\ page # "blank"
    /\ id \in inflight
    /\ inflight' = inflight \ {id}
    /\ tokens' = data
    /\ error' = error_null
    /\ loading' = FALSE
    /\ tokensFrom' = id
    /\ lastDone' = "ok"
    /\ UNCHANGED <<nfetch, ncmd>>
    /\ RenderApp(data, FALSE, error_null, {"tokens"})

\* err instanceof Error ? err.message : 'Failed to load token data'
MessageOf(err) == IF err.isError THEN err.message ELSE "Failed to load token data"

\* the catch block without the finally block: the flag is left as it was
FetchFailKeepsLoading(id, err) ==
    /\ page # "blank"
    /\ id \in inflight
    /\ inflight' = inflight \ {id}
    /\ error' = MessageOf(err)
    /\ lastDone' = "fail"
    /\ UNCHANGED <<tokens, loading, nfetch, tokensFrom, ncmd>>
    /\ IF MessageOf(err) = error
       THEN UNCHANGED <<viewState, page, view, viewOf, now, ran>>
       ELSE RenderApp(tokens, loading, MessageOf(err), {})

\* fetch rejects, the response is not ok or json() rejects:
\* setError(err instanceof Error ? err.message : 'Failed to load token data');
\* finally setLoading(false).  React renders when a state has changed.
FetchFail(id, err) ==
    /\ page # "blank"
    /\ id \in inflight
    /\ inflight' = inflight \ {id}
    /\ error' = MessageOf(err)
    /\ loading' = FALSE
    /\ lastDone' = "fail"
    /\ UNCHANGED <<tokens, nfetch, tokensFrom, ncmd>>
    /\ IF MessageOf(err) = error /\ ~loading
       THEN UNCHANGED <<viewState, page, view, viewOf, now, ran>>
       ELSE RenderApp(tokens, FALSE, MessageOf(err), {})

\* the Retry button of the error panel: window.location.reload().  The page
\* starts again: the state is the initial state, the effect calls fetchTokens,
\* and the responses of the fetches of the page that is gone are dropped.
Retry ==
    /\ page = "error"
    /\ nfetch < MaxFetches
    /\ ncmd < MaxCommands
    /\ tokens' = <<>>
    /\ loading' = TRUE
    /\ error' = error_null
    /\ nfetch' = nfetch + 1
    /\ inflight' = {nfetch + 1}
    /\ tokensFrom' = 0
    /\ lastDone' = "none"
    /\ columns' = InitialColumns
    /\ sortConfig' = InitialSortConfig
    /\ filters' = InitialFilters
    /\ page' = "spinner"
    /\ view' = NoView
    /\ ran' = {}
    /\ ncmd' = ncmd + 1
    /\ UNCHANGED <<viewOf, now>>

-----------------------------------------------------------------------------
(* TokenTable: the event handlers *)

(* A handler runs in a click or change event of an element of the table, and   *)
(* React renders the update before the next event is handled: the step of a    *)
(* command is the setter and the render that follows it.  The handlers are     *)
(* those of the last render, so the `columns` that toggleColumn closes over is *)
(* the current state.                                                          *)
CanCommand == mounted /\ view.status = "ok" /\ ncmd < MaxCommands

\* columns.map(col => col.key === key ? {...col, visible: !col.visible} : col)
toggledAlsoRequired(cols, key) ==
    [i \in DOMAIN cols |->
        IF cols[i].key = key THEN [cols[i] EXCEPT !.visible = ~cols[i].visible]
        ELSE cols[i]]

\* the toggled descriptor taken out of its place and appended
toggledMovesLast(cols, key) ==
    LET Hit(col) == col.key = key /\ ~col.required
        Miss(col) == ~Hit(col)
        hit == SelectSeq(cols, Hit)
    IN  SelectSeq(cols, Miss)
            \o [i \in DOMAIN hit |-> [hit[i] EXCEPT !.visible = ~hit[i].visible]]

\* columns.map(col => col.key === key && !col.required ? {...col, visible: !col.visible} : col)
toggled(cols, key) ==
    [i \in DOMAIN cols |->
        IF cols[i].key = key /\ ~cols[i].required
        THEN [cols[i] EXCEPT !.visible = ~cols[i].visible]
        ELSE cols[i]]

\* setColumns(columns.map(...))
toggleColumn(key) ==
    /\ CanCommand
    /\ columns' = toggled(columns, key)
    /\ ncmd' = ncmd + 1
    /\ UNCHANGED <<appVars, sortConfig, filters>>
    /\ RenderTokenTable(tokens, toggled(columns, key), filters, sortConfig, FALSE, {"columns"})

\* current => ({ key, direction: current.direction === 'asc' ? 'desc' : 'asc' })
nextSortFlipsAlways(current, key) ==
    [key |-> key, direction |-> IF current.direction = "asc" THEN "desc" ELSE "asc"]

\* current => ({ key, direction: current.key === key && current.direction === 'asc' ? 'desc' : 'asc' })
nextSort(current, key) ==
    [key |-> key,
     direction |-> IF current.key = key /\ current.direction = "asc" THEN "desc" ELSE "asc"]

handleSort(key) ==
    /\ CanCommand
    /\ sortConfig' = nextSort(sortConfig, key)
    /\ ncmd' = ncmd + 1
    /\ UNCHANGED <<appVars, columns, filters>>
    /\ RenderTokenTable(tokens, columns, filters, nextSort(sortConfig, key), FALSE,
                        {"sortConfig"})

\* setFilters(prev => ({ ...prev, [field]: e.target.value }))
setFilter(field, value) ==
    /\ CanCommand
    /\ filters' = [filters EXCEPT ![field] = value]
    /\ ncmd' = ncmd + 1
    /\ UNCHANGED <<appVars, columns, sortConfig>>
    /\ RenderTokenTable(tokens, columns, [filters EXCEPT ![field] = value], sortConfig,
                        FALSE, {"filters"})

setSearch(text) == setFilter("search", text)
setLiquidityFilter(class) == setFilter("liquidity", class)
setMcMin(text) == setFilter("mcMin", text)
setMcMax(text) == setFilter("mcMax", text)

\* TokenTable renders with its state as it is: at mount, and when one of its
\* popups opens or closes (setShowColumnSelector, setShowFilters)
Render ==
    /\ mounted
    /\ UNCHANGED <<appVars, viewState, ncmd>>
    /\ RenderTokenTable(tokens, columns, filters, sortConfig, view.status = "none", {})

\* time passes between two renders
Tick ==
    /\ page # "blank"
    /\ \E t \in DOMAIN Times : Times[t] > now /\ now' = Times[t]
    /\ UNCHANGED <<appVars, viewState, page, view, viewOf, ncmd, ran>>

-----------------------------------------------------------------------------
(* Specifications *)

\* the page after its first render: the spinner, the first fetch under way
Init ==
    /\ tokens = <<>>
    /\ loading = TRUE
    /\ error = error_null
    /\ inflight = {1}
    /\ nfetch = 1
    /\ tokensFrom = 0
    /\ lastDone = "none"
    /\ columns = InitialColumns
    /\ sortConfig = InitialSortConfig
    /\ filters = InitialFilters
    /\ page = "spinner"
    /\ view = NoView
    /\ viewOf = NoInputs
    /\ now = Times[1]
    /\ ncmd = 0
    /\ ran = {}

Next ==
    \/ StartFetch
    \/ \E id \in inflight, data \in Snapshots : FetchSuccess(id, data)
    \/ \E id \in inflight, err \in Failures : FetchFail(id, err)
    \/ Retry
    \/ Render
    \/ \E key \in ToggleKeys : toggleColumn(key)
    \/ \E key \in SortKeys : handleSort(key)
    \/ \E text \in CommandSearches : setSearch(text)
    \/ \E class \in {"hyperliquid"} : setLiquidityFilter(class)
    \/ \E text \in CommandBounds : setMcMin(text)
    \/ \E text \in CommandBounds : setMcMax(text)
    \/ Tick

Spec == Init /\ [][Next]_vars

\* a TokenTable on the page with data loaded, before its first render
Loaded(data, f, sc) ==
    /\ tokens = data
    /\ loading = FALSE
    /\ error = error_null
    /\ inflight = {}
    /\ nfetch = 1
    /\ tokensFrom = 1
    /\ lastDone = "ok"
    /\ columns = InitialColumns
    /\ sortConfig = sc
    /\ filters = f
    /\ page = "table"
    /\ view = NoView
    /\ viewOf = NoInputs
    /\ now = Times[1]
    /\ ncmd = 0
    /\ ran = {}

\* the filter step on every record and every filter state
InitFilter ==
    \E data \in Lists({ Token(symbol, "0x1", slippage, cap, 10) :
                             symbol \in {<<"A", "b">>, <<"b">>},
                             slippage \in {Threshold, Threshold + 1},
                             cap \in {0 - 1, 50, 100} }, MaxFilterLen),
       f \in [search : {<<>>, <<"a">>, <<"B">>, <<"a", "B">>},
               liquidity : {"all", "hyperliquid", "non-hyperliquid"},
               mcMin : BoundTexts, mcMax : BoundTexts] :
        Loaded(data, f, InitialSortConfig)

SpecFilter == InitFilter /\ [][Render]_vars

\* the data source and the Retry button as time passes: fetches start, and
\* every fetch that was started gets its response or its failure
CompleteFetch(id) ==
    \/ \E data \in Snapshots : FetchSuccess(id, data)
    \/ \E err \in Failures : FetchFail(id, err)

NextLoad ==
    \/ StartFetch
    \/ \E id \in inflight : CompleteFetch(id)
    \/ Retry
    \/ Tick

\* weak fairness of every CompleteFetch(id), WF_vars(CompleteFetch(id)): the
\* step takes the fetch out of `inflight`, so it is taken if it stays enabled.
\* CompleteFetch(id) can be taken, ENABLED <<CompleteFetch(id)>>_vars, when id is
\* in flight and the page is not blank.
SpecLoad ==
    /\ Init
    /\ [][NextLoad]_vars
    /\ \A id \in 1 .. MaxFetches : []<>(~(id \in inflight /\ page # "blank"))

\* the sort step on every collection, sort state and moment
InitSort ==
    \E data \in Lists(SortRecords, MaxLen),
       sc \in [key : {"market_cap", "total_bid_size", "token", "deploy_time"},
               direction : {"asc", "desc"}] :
        Loaded(data, InitialFilters, sc)

NextSort == Render \/ Tick

SpecSort == InitSort /\ [][NextSort]_vars

-----------------------------------------------------------------------------
(* Properties *)

Rows == view.rows
RowIds(v) == [r \in DOMAIN v.rows |-> v.rows[r].index]
Displayed(v, i) == \E r \in DOMAIN v.rows : v.rows[r].index = Num(i)

\* the record a displayed row was made from, looked up by its index
RecordOf(row) == indexedData(viewOf.data)[row.index[3]]

\* C1: after any sequence of toggleColumn calls, with required, non-required
\* or unknown keys, every required column is visible.
C1_RequiredVisible ==
    \A i \in DOMAIN columns : columns[i].required => columns[i].visible

\* a toggle has changed the visibility of some column
C1_Toggled ==
    \E i \in DOMAIN columns : columns[i].visible # InitialColumns[i].visible

Opposite(direction) == IF direction = "asc" THEN "desc" ELSE "asc"
RegistryKeys == {InitialColumns[i].key : i \in DOMAIN InitialColumns}

\* C2: the sort state starts as (market_cap, desc); setSort(k) makes k the
\* active key, ascending when k was not the active key and the opposite of the
\* previous direction when it was; there is always exactly one active key.
C2_SortTransition ==
    /\ sortConfig = [key |-> "market_cap", direction |-> "desc"]
    /\ [][\A key \in SortKeys :
            handleSort(key) =>
               /\ sortConfig'.key = key
               /\ sortConfig'.direction =
                     IF key # sortConfig.key THEN "asc"
                     ELSE Opposite(sortConfig.direction)]_vars
    /\ [](sortConfig.key \in RegistryKeys /\ sortConfig.direction \in {"asc", "desc"})

\* one click on the market-cap header from the initial state, and one click on
\* another header after it
C2_Clicked ==
    /\ ncmd = 2
    /\ sortConfig = [key |-> "token", direction |-> "asc"]
    /\ columns = InitialColumns
    /\ filters = InitialFilters

\* two records compare equal under the sort state at the moment clock
EqualAt(a, b, sc, clock) == Sign(compare(a, b, sc, clock, clock)) = 0

\* C3: two displayed records that compare equal under the active sort key
\* (for the age: at every moment of the render) are in the order they have in
\* the filtered, unsorted list (the order of their indices).
C3_Stable ==
    view.status = "ok" =>
        \A i, j \in DOMAIN Rows :
            (/\ i < j
             /\ EqualAt(RecordOf(Rows[i]), RecordOf(Rows[j]), viewOf.sortConfig,
                        viewOf.clock.before)
             /\ EqualAt(RecordOf(Rows[i]), RecordOf(Rows[j]), viewOf.sortConfig,
                        viewOf.clock.after))
            => Rows[i].index[3] < Rows[j].index[3]

\* the number each text of the bound boxes denotes, in tenths; Infinity apart
BoundTenths(text) ==
    CASE text = <<"5", "0">> -> 500
      [] text = <<"6", "0">> -> 600
      [] text = <<"6", "e", "1">> -> 600
      [] text = <<".", "5", "0", "5", "e", "2">> -> 505
      [] text = <<"-", "1">> -> 0 - 10
      [] text = <<"1", "E", "2">> -> 1000
      [] OTHER -> 0

BoundIsInfinite(text) == text = <<"I", "n", "f", "i", "n", "i", "t", "y">>

\* the bound a text of the bound boxes sets: none when empty, none when
\* the text denotes no number
BoundIsSet(text) == BoundIsInfinite(text) \/ BoundTenths(text) # 0
BoundIsGarbage(text) == text # <<>> /\ ~BoundIsSet(text)

\* number <= the bound of the text
AtMostBound(n, text) == BoundIsInfinite(text) \/ 10 * n <= BoundTenths(text)

\* the bound of the text <= number
AtLeastBound(n, text) == ~BoundIsInfinite(text) /\ BoundTenths(text) <= 10 * n

\* the bound of one text is above the bound of the other
BoundAbove(min, max) ==
    /\ ~BoundIsInfinite(max)
    /\ BoundIsInfinite(min) \/ BoundTenths(min) > BoundTenths(max)

MatchesSearch(token, f) ==
    f.search = <<>> \/ includes(toLowerCase(token.token[2]), toLowerCase(f.search))

MatchesLiquidity(token, f) ==
    \/ f.liquidity = "all"
    \/ f.liquidity = "hyperliquid" /\ token.slippage[3] <= Threshold
    \/ f.liquidity = "non-hyperliquid" /\ token.slippage[3] > Threshold

AtMostMax(token, f) ==
    BoundIsSet(f.mcMax) => AtMostBound(token.market_cap[3], f.mcMax)

AtLeastMin(token, f) ==
    IF BoundIsSet(f.mcMin) THEN AtLeastBound(token.market_cap[3], f.mcMin)
    ELSE 0 <= token.market_cap[3]

\* C4: with each bound unset or set to a number, a record is displayed iff it
\* matches the search text, the liquidity class and min <= market_cap <= max,
\* min being 0 and max infinite when unset; a min above the max shows nothing.
C4_Inclusion ==
    (/\ view.status = "ok"
     /\ ~BoundIsGarbage(viewOf.filters.mcMin)
     /\ ~BoundIsGarbage(viewOf.filters.mcMax))
    => /\ \A i \in DOMAIN viewOf.data :
            Displayed(view, i) <=>
               /\ MatchesSearch(viewOf.data[i], viewOf.filters)
               /\ MatchesLiquidity(viewOf.data[i], viewOf.filters)
               /\ AtLeastMin(viewOf.data[i], viewOf.filters)
               /\ AtMostMax(viewOf.data[i], viewOf.filters)
       /\ (/\ BoundIsSet(viewOf.filters.mcMin)
           /\ BoundIsSet(viewOf.filters.mcMax)
           /\ BoundAbove(viewOf.filters.mcMin, viewOf.filters.mcMax))
          => Rows = <<>>

\* a record with spread exactly 0.31 displayed under the liquid class, with
\* a search text and a minimum set
C4_BoundaryShown ==
    /\ view.status = "ok"
    /\ viewOf.filters.liquidity = "hyperliquid"
    /\ viewOf.filters.search # <<>>
    /\ BoundIsSet(viewOf.filters.mcMin)
    /\ viewOf.filters.mcMax = <<>>
    /\ Len(viewOf.data) = 1
    /\ viewOf.data[1].slippage = Num(Threshold)
    /\ Displayed(view, 1)

\* C6: every displayed row's index is 1 + the position, in the raw collection
\* the table was given, of the record the row shows; the indices of the rows
\* are pairwise distinct and lie in 1 .. the length of the raw collection.
C6_RowIndex ==
    view.status = "ok" =>
        /\ \A r \in DOMAIN Rows :
              /\ IsFinite(Rows[r].index)
              /\ Rows[r].index[3] \in 1 .. Len(viewOf.data)
              /\ Rows[r].key = viewOf.data[Rows[r].index[3]].token_id
        /\ \A r, q \in DOMAIN Rows : Rows[r].index = Rows[q].index => r = q

\* a filtered, re-sorted view of a refreshed collection whose first row is not
\* the first record
C6_Reordered ==
    /\ view.status = "ok"
    /\ tokensFrom >= 2
    /\ viewOf.data = tokens
    /\ viewOf.filters.search # <<>>
    /\ viewOf.sortConfig # InitialSortConfig
    /\ Len(Rows) >= 2
    /\ Rows[1].index # Num(1)

\* C7: with a field a column addresses absent, the accessor returns absent and
\* filtering, sorting and formatting complete without raising.
C7_NeverRaises ==
    /\ \A i \in DOMAIN tokens :
          tokens[i].holders = Undefined =>
             getNestedValue(tokens[i], "holders.concentration.top1_share") = Undefined
    /\ view.status # "TypeError"

SameInputs ==
    /\ viewOf'.data = viewOf.data
    /\ viewOf'.filters = viewOf.filters
    /\ viewOf'.sortConfig = viewOf.sortConfig

\* C8 as stated: two computations on the same records, filters and sort state
\* give the same records in the same order, whenever each is run.
C8_SameOutput ==
    [][(view.status = "ok" /\ view'.status = "ok" /\ SameInputs)
          => RowIds(view') = RowIds(view)]_vars

\* C8 amended: they do for every sort key other than the deployment age, and
\* for the deployment age when both computations read the same clock.
C8_SameOutputSameClock ==
    [][(/\ view.status = "ok"
        /\ view'.status = "ok"
        /\ SameInputs
        /\ (viewOf.sortConfig.key # "deploy_time" \/ viewOf'.clock = viewOf.clock))
          => RowIds(view') = RowIds(view)]_vars

\* a second computation, at a later moment, of a view sorted by market cap
C8_Recomputed ==
    /\ view.status = "ok"
    /\ viewOf.clock.before > Times[1]
    /\ viewOf.sortConfig.key = "market_cap"
    /\ Len(Rows) >= 3

\* C9: column visibility, filter state and sort state change only in the
\* steps of the user commands; no step of the data source changes them.
C9_OnlyUserCommands ==
    [][viewState' # viewState => ncmd' = ncmd + 1]_vars

\* the filtered, unsorted list of the last render
Filtered == filteredData(indexedData(viewOf.data), viewOf.filters)

\* the value of the active sort key in a record
KeyOf(token) == getNestedValue(token, viewOf.sortConfig.key)

\* the collection with another deploy_time reported for the designated record
WithDeployTime(data, t) ==
    [i \in DOMAIN data |->
        IF data[i].token_id = OverrideId THEN [data[i] EXCEPT !.deploy_time = t]
        ELSE data[i]]

\* the age cell of a displayed row: `${days}d`
AgeCells(row) ==
    {row.cells[c][2] : c \in {d \in DOMAIN visibleColumns(columns) :
                                  visibleColumns(columns)[d].key = "deploy_time"}}

\* the age the callback of the sort computed for the record of a row: in the
\* k-th call, for its first argument at the reading 2k - 1 and for its second
\* at the reading 2k
SortAges(row) ==
    LET log == ArraySort(Filtered, viewOf.sortConfig, viewOf.clock).log
    IN  { SortAge(RecordOf(row), RecordOf(row).deploy_time,
                  ReadClock(viewOf.clock, 2 * call[1] - 2 + call[2])) :
            call \in {c \in (DOMAIN log) \X {1, 2} :
                         /\ viewOf.sortConfig.key = "deploy_time"
                         /\ log[c[1]][c[2]] = row.index} }

\* C11: whatever deploy_time the designated record reports, the row order and
\* the cells are those of the age counted from 2024-04-16; the age a row
\* displays is the age the comparator sorted the record by, which for every
\* other record is floor((now - deploy_time) / 1 day).
C11_AgeOverride ==
    view.status = "ok" =>
        /\ \A t \in DeployTimes :
              WithDeployTime(viewOf.data, t) # viewOf.data =>
                 RenderTable(WithDeployTime(viewOf.data, t), columns, viewOf.filters,
                             viewOf.sortConfig, viewOf.clock) = view
        /\ \A r \in DOMAIN Rows :
              /\ AgeCells(Rows[r]) # {}
              /\ \A cell \in AgeCells(Rows[r]) :
                    /\ \A age \in SortAges(Rows[r]) : cell = <<"days", age>>
                    /\ \E clock \in {viewOf.clock.before, viewOf.clock.after} :
                          cell[2] =
                             IF Rows[r].key = OverrideId
                             THEN Num(clock \div HoursPerDay)
                             ELSE IF DateOf(RecordOf(Rows[r]).deploy_time) = NaN THEN NaN
                             ELSE Num((clock - RecordOf(Rows[r]).deploy_time[2][2])
                                         \div HoursPerDay)

\* the descriptors of the initial registry whose key is visible in cols, in
\* the order of the initial registry
InRegistryOrder(cols) ==
    LET Shows(col) == \E i \in DOMAIN cols : cols[i].key = col.key /\ cols[i].visible
    IN  SelectSeq(InitialColumns, Shows)

Keys(cols) == [i \in DOMAIN cols |-> cols[i].key]

\* C12: toggleColumn(c) flips the visible flag of a non-required c and leaves
\* every other descriptor, the filters and the sort state as they were; the
\* visible columns are always the visible descriptors in the order of the
\* initial registry.
C12_ToggleFrame ==
    /\ [][\A key \in ToggleKeys :
            toggleColumn(key) =>
               /\ DOMAIN columns' = DOMAIN columns
               /\ \A i \in DOMAIN columns :
                     columns'[i] =
                        IF columns[i].key = key /\ ~columns[i].required
                        THEN [columns[i] EXCEPT !.visible = ~columns[i].visible]
                        ELSE columns[i]
               /\ filters' = filters
               /\ sortConfig' = sortConfig]_vars
    /\ [](Keys(visibleColumns(columns)) = Keys(InRegistryOrder(columns)))

\* two non-required columns toggled, one after the other, the filters and
\* the sort state as they were at mount
C12_TwoToggled ==
    /\ ncmd = 2
    /\ view.status = "ok"
    /\ \A i \in DOMAIN columns :
          (columns[i].visible # InitialColumns[i].visible)
             <=> columns[i].key \in {"slippage", "holders_count"}
    /\ filters = InitialFilters
    /\ sortConfig = InitialSortConfig

\* C13: a render of a mounted table runs the index step only when a new
\* collection was received, the filter step only when the collection or the
\* filter state changed, and the sort step only when the filtered list or the
\* sort state changed; after a toggleColumn alone, or when a popup opens or
\* closes, it runs none of them.
C13_RecomputeOnlyOnChange ==
    [][/\ (Render /\ view.status = "ok") => ran' = {}
       /\ \A key \in ToggleKeys : toggleColumn(key) => ran' = {}
       /\ \A key \in SortKeys : handleSort(key) => ran' \subseteq {"sort"}
       /\ \A text \in CommandSearches :
             setSearch(text) => ran' \subseteq {"filter", "sort"}]_vars

\* C14: when the active sort key resolves to a number in every filtered
\* record, the rows are the filtered records, each exactly once, with the key
\* non-decreasing down the rows when ascending and non-increasing when
\* descending.
C14_NumericSorted ==
    (/\ view.status = "ok"
     /\ \A i \in DOMAIN Filtered : IsFinite(KeyOf(Filtered[i])))
    => /\ Len(Rows) = Len(Filtered)
       /\ \A i \in DOMAIN Filtered :
             Cardinality({r \in DOMAIN Rows : Rows[r].index = Filtered[i].index}) = 1
       /\ \A r, q \in DOMAIN Rows :
             r < q =>
                IF viewOf.sortConfig.direction = "asc"
                THEN KeyOf(RecordOf(Rows[r]))[3] <= KeyOf(RecordOf(Rows[q]))[3]
                ELSE KeyOf(RecordOf(Rows[r]))[3] >= KeyOf(RecordOf(Rows[q]))[3]

\* four records with a tie on the key, given in neither order, sorted
\* ascending by market cap
C14_SortedAscending ==
    /\ view.status = "ok"
    /\ viewOf.sortConfig = [key |-> "market_cap", direction |-> "asc"]
    /\ Len(Rows) = 4
    /\ \A i \in DOMAIN Filtered : IsFinite(KeyOf(Filtered[i]))
    /\ KeyOf(RecordOf(Rows[2])) = KeyOf(RecordOf(Rows[3]))
    /\ Rows[1].index = Num(3)
    /\ Rows[4].index = Num(2)

\* the values of the active sort key in two records are of different types,
\* or one of them is absent
Fallback(a, b) ==
    \/ typeof(KeyOf(a)) # typeof(KeyOf(b))
    \/ KeyOf(a) = Undefined
    \/ KeyOf(b) = Undefined

\* C15: under a sort key other than the age, the callback returns 0 for two
\* records whose values are of different types or absent, in both argument
\* orders and both directions; when every pair of filtered records is such a
\* pair the rows are the filtered list in its order.
C15_EqualFallback ==
    (view.status = "ok" /\ viewOf.sortConfig.key # "deploy_time") =>
        /\ \A i, j \in DOMAIN Filtered :
              Fallback(Filtered[i], Filtered[j]) =>
                 \A direction \in {"asc", "desc"} :
                    LET sc == [key |-> viewOf.sortConfig.key, direction |-> direction]
                    IN  /\ compare(Filtered[i], Filtered[j], sc, viewOf.clock.before,
                                   viewOf.clock.after) = Num(0)
                        /\ compare(Filtered[j], Filtered[i], sc, viewOf.clock.before,
                                   viewOf.clock.after) = Num(0)
        /\ (\A i, j \in DOMAIN Filtered :
               i # j => Fallback(Filtered[i], Filtered[j]))
            => RowIds(view) = [i \in DOMAIN Filtered |-> Filtered[i].index]

\* three records, one with a number, one with a text and one with nothing
\* under the key, the number given last, sorted ascending
C15_AllFallback ==
    /\ view.status = "ok"
    /\ viewOf.sortConfig = [key |-> "total_bid_size", direction |-> "asc"]
    /\ Len(Rows) = 3
    /\ \A i, j \in DOMAIN Filtered : i # j => Fallback(Filtered[i], Filtered[j])
    /\ typeof(KeyOf(Filtered[1])) = "string"
    /\ typeof(KeyOf(Filtered[2])) = "undefined"
    /\ typeof(KeyOf(Filtered[3])) = "number"

\* C16: of two overlapping fetches that both succeed, the collection held
\* once both have completed is that of the fetch started later: a response
\* never replaces the snapshot of a fetch that was started after its own.
C16_NewestWins ==
    [][\A id \in inflight, data \in Snapshots :
          FetchSuccess(id, data) => id > tokensFrom]_vars

\* C17 as stated: when every fetch that was started completes, loading
\* becomes false, whether the first fetch succeeds or fails, and it never
\* becomes true again; from then on an error message is set exactly when the
\* fetch that completed last failed, and a failed fetch leaves the stored
\* collection as it was.
C17_LoadCompletes ==
    /\ <>(~loading)
    /\ [][~loading => ~loading']_vars
    /\ [](~loading => (error # error_null <=> lastDone = "fail"))
    /\ [](lastDone # "none" => ~loading)
    /\ [][\A id \in inflight, err \in Failures :
            FetchFail(id, err) => tokens' = tokens]_vars

\* C17 amended: loading becomes false every time the page loads, and then
\* stays false until the page is reloaded by the Retry button; the rest as
\* stated.
C17_LoadCompletesUntilRetry ==
    /\ loading ~> ~loading
    /\ [][(~loading /\ ~Retry) => ~loading']_vars
    /\ [](~loading => (error # error_null <=> lastDone = "fail"))
    /\ [](lastDone # "none" => ~loading)
    /\ [][\A id \in inflight, err \in Failures :
            FetchFail(id, err) => tokens' = tokens]_vars

\* the page reloaded by Retry after a failed fetch, and the fetch of the
\* reloaded page failed as well: the flag is false again, the error panel is
\* on the page and the stored collection is the empty one the page started with
C17_FailedAfterReload ==
    /\ ~loading
    /\ lastDone = "fail"
    /\ error = "Failed to fetch token data"
    /\ page = "error"
    /\ tokens = <<>>
    /\ inflight = {}
    /\ nfetch = 2
    /\ ncmd = 1

====
